---- MODULE Spec2Model ----
(***************************************************************************)
(* Model of the piano-chord-training statistics service (src/main.go).     *)
(*                                                                         *)
(* State: the process-wide variables authToken and mongoClient, the        *)
(* "statistics" collection of the store, the server's local date, and for  *)
(* every request in flight its position in the middleware chain / handler  *)
(* together with the handler's local variables and its ResponseWriter.     *)
(*                                                                         *)
(* Every action is one run of handler code between two interactions with   *)
(* the world outside the goroutine (the store, the clock).  A blocking     *)
(* store call is the time a request spends at the pc named after the call; *)
(* the action fires when the call returns.                                 *)
(*                                                                         *)
(* Encodings.  A calendar-day string "YYYY-MM-DD" is the triple <<y,m,d>>  *)
(* (the format is fixed-width, so string equality is triple equality).     *)
(* A time.Time is [day, msec, nsec, off]: the UTC day number since         *)
(* 1970-01-01, the millisecond of that day, the nanoseconds below the      *)
(* millisecond and the zone offset in minutes it is expressed in.          *)
(***************************************************************************)
EXTENDS Integers, Sequences, FiniteSets, TLC

(***************************************************************************)
(* Bounds of the model.                                                    *)
(***************************************************************************)
MaxReq == 2          \* requests the server accepts
MaxMidnights == 1    \* midnights the server clock passes

\* The inbound connections.  The requests of one connection are served one
\* after the other, those of different connections concurrently.
Connections == {1, 2}

(***************************************************************************)
(* Program constants.                                                      *)
(***************************************************************************)
StatusOK == 200
StatusUnauthorized == 401
StatusInternalServerError == 500
StatusGatewayTimeout == 504
startTimeDaysAgo == 31

(***************************************************************************)
(* Calendar arithmetic of time.Time (proleptic Gregorian calendar).        *)
(***************************************************************************)
\* Day number of the civil date y-m-d; d may lie outside the month, as in
\* time.Date, which normalises it.
DaysFromCivil(y, m, d) ==
  LET yy  == IF m <= 2 THEN y - 1 ELSE y
      era == yy \div 400
      yoe == yy - era * 400
      mp  == IF m > 2 THEN m - 3 ELSE m + 9
      doy == (153 * mp + 2) \div 5 + d - 1
      doe == yoe * 365 + yoe \div 4 - yoe \div 100 + doy
  IN  era * 146097 + doe - 719468

\* Civil date <<y, m, d>> of a day number.
CivilFromDays(z) ==
  LET zz  == z + 719468
      era == zz \div 146097
      doe == zz - era * 146097
      yoe == (doe - doe \div 1460 + doe \div 36524 - doe \div 146096) \div 365
      doy == doe - (365 * yoe + yoe \div 4 - yoe \div 100)
      mp  == (5 * doy + 2) \div 153
      d   == doy - (153 * mp + 2) \div 5 + 1
      m   == IF mp < 10 THEN mp + 3 ELSE mp - 9
      y   == yoe + era * 400
  IN  << IF m <= 2 THEN y + 1 ELSE y, m, d >>

\* today.AddDate(0, 0, -i): time.Date(year, month, day-i, ...), normalised.
AddDate(civil, i) == CivilFromDays(DaysFromCivil(civil[1], civil[2], civil[3] - i))

\* targetDay.Format("2006-01-02")
Format(civil) == civil

\* {"$dateToString": {"format": "%Y-%m-%d", "date": "$created_at"}}: the store
\* formats the stored instant in UTC.
DateToString(datetime) == CivilFromDays(datetime.day)

(***************************************************************************)
(* StatsRaw and its encodings.                                             *)
(***************************************************************************)
ZeroTime == [day |-> DaysFromCivil(1, 1, 1), msec |-> 0, nsec |-> 0, off |-> 0]

ZeroStats ==
  [ChordName |-> "", RootNote |-> "", ChordExtension |-> "",
   AnswerDurationMilliSeconds |-> 0, CreatedAt |-> ZeroTime]

\* time.Time.UnmarshalJSON on the timestamps the model's payloads carry; every
\* other string is not RFC 3339.
ParseRFC3339(s) ==
  CASE s = "2024-01-05T10:00:00Z" ->
         [ok |-> TRUE, t |-> [day |-> DaysFromCivil(2024, 1, 5), msec |-> 36000000,
                              nsec |-> 0, off |-> 0]]
    [] s = "2024-01-06T08:00:00Z" ->
         [ok |-> TRUE, t |-> [day |-> DaysFromCivil(2024, 1, 6), msec |-> 28800000,
                              nsec |-> 0, off |-> 0]]
    [] s = "2024-01-06T01:00:00.1234567+02:00" ->
         [ok |-> TRUE, t |-> [day |-> DaysFromCivil(2024, 1, 5), msec |-> 82800123,
                              nsec |-> 456700, off |-> 120]]
    [] OTHER -> [ok |-> FALSE, t |-> ZeroTime]

\* One member of a JSON object decoded into the struct: d is [stats, err, abort].
\* A value of the wrong JSON type for a string or int field is an
\* UnmarshalTypeError that the decoder saves while it goes on; an error of
\* time.Time's UnmarshalJSON ends the decoding where it stands.
DecodeField(d, f) ==
  IF d.abort THEN d
  ELSE CASE f.key \in {"chord_name", "root_note", "chord_extension"} ->
              IF f.kind = "string"
              THEN [d EXCEPT !.stats =
                     CASE f.key = "chord_name" -> [@ EXCEPT !.ChordName = f.str]
                       [] f.key = "root_note" -> [@ EXCEPT !.RootNote = f.str]
                       [] OTHER -> [@ EXCEPT !.ChordExtension = f.str]]
              ELSE [d EXCEPT !.err = TRUE]
         [] f.key = "answer_duration_millis" ->
              IF f.kind = "number"
              THEN [d EXCEPT !.stats.AnswerDurationMilliSeconds = f.num]
              ELSE [d EXCEPT !.err = TRUE]
         [] f.key = "created_at" ->
              IF f.kind = "string" /\ ParseRFC3339(f.str).ok
              THEN [d EXCEPT !.stats.CreatedAt = ParseRFC3339(f.str).t]
              ELSE [d EXCEPT !.err = TRUE, !.abort = TRUE]
         [] OTHER -> d

RECURSIVE DecodeFields(_, _)
DecodeFields(d, fields) ==
  IF fields = <<>> THEN d
  ELSE DecodeFields(DecodeField(d, Head(fields)), Tail(fields))

\* Faulty variant of Decode: a decoder that stores nothing when any member
\* fails, so that every body in error yields the zero StatsRaw.
DecodeAllOrNothing(body) ==
  IF body.kind # "object" THEN [stats |-> ZeroStats, err |-> TRUE]
  ELSE LET d == DecodeFields([stats |-> ZeroStats, err |-> FALSE, abort |-> FALSE],
                             body.fields)
       IN  [stats |-> IF d.err THEN ZeroStats ELSE d.stats, err |-> d.err]

\* json.NewDecoder(r.Body).Decode(&stats) on a zero StatsRaw: [stats, err].
\* An empty body (io.EOF) and a body that is not well-formed JSON fail before
\* anything is stored into the struct.
Decode(body) ==
  IF body.kind # "object" THEN [stats |-> ZeroStats, err |-> TRUE]
  ELSE LET d == DecodeFields([stats |-> ZeroStats, err |-> FALSE, abort |-> FALSE],
                             body.fields)
       IN  [stats |-> d.stats, err |-> d.err]

\* Faulty variant of BSONDateTime: the instant stored in whole seconds.
BSONDateTimeSeconds(t) == [day |-> t.day, msec |-> (t.msec \div 1000) * 1000]

\* bson encoding of a time.Time: a UTC datetime in whole milliseconds.
BSONDateTime(t) == [day |-> t.day, msec |-> t.msec]

\* The document InsertOne stores for a StatsRaw.
BSONMarshal(stats) ==
  [chord_name |-> stats.ChordName, root_note |-> stats.RootNote,
   chord_extension |-> stats.ChordExtension,
   answer_duration_millis |-> stats.AnswerDurationMilliSeconds,
   created_at |-> BSONDateTime(stats.CreatedAt)]

\* The StatsRaw cursor.All decodes from a document: the datetime comes back as
\* a UTC time.Time.
BSONUnmarshal(doc) ==
  [ChordName |-> doc.chord_name, RootNote |-> doc.root_note,
   ChordExtension |-> doc.chord_extension,
   AnswerDurationMilliSeconds |-> doc.answer_duration_millis,
   CreatedAt |-> [day |-> doc.created_at.day, msec |-> doc.created_at.msec,
                  nsec |-> 0, off |-> 0]]

\* json.Marshal fails on a time.Time whose year is outside [0,9999].
MarshalFails(stats) ==
  \E k \in 1..Len(stats) :
     CivilFromDays(stats[k].CreatedAt.day)[1] \notin 0..9999

(***************************************************************************)
(* The inputs the requests are drawn from.                                 *)
(***************************************************************************)
Str(k, s) == [key |-> k, kind |-> "string", str |-> s, num |-> 0]
Num(k, n) == [key |-> k, kind |-> "number", str |-> "", num |-> n]
Object(fields) == [kind |-> "object", fields |-> fields]

Answer(createdAt) ==
  Object(<< Str("chord_name", "Cmaj7"), Str("root_note", "C"),
            Str("chord_extension", "maj7"), Num("answer_duration_millis", 1500),
            Str("created_at", createdAt) >>)

NoBody == [kind |-> "eof", fields |-> <<>>]

\* What a client may send as the body of POST /stats: nothing, text that is
\* not JSON, an answer, an answer stamped below the millisecond in another
\* zone, and JSON whose members have the wrong types.
Bodies ==
  { NoBody,
    [kind |-> "syntax", fields |-> <<>>],
    Answer("2024-01-06T08:00:00Z"),
    Answer("2024-01-06T01:00:00.1234567+02:00"),
    Object(<< Str("chord_name", "Cmaj7"), Str("answer_duration_millis", "fast"),
              Str("root_note", "C"), Str("created_at", "yesterday"),
              Str("chord_extension", "maj7") >>) }

Secrets == {"", "s3cret"}

\* r.Header["X-Auth-Token"]: absent, one value (a wrong one, the secret that
\* is not empty), several values.
Headers == { <<>>, <<"wrong">>, <<"s3cret">>, <<"wrong", "s3cret">> }

Routes == {"ping", "stats", "raw", "count_by_day"}

\* The collection when the server starts: empty; the three answers of
\* 2024-01-05 and the one of 2024-01-06 that earlier requests stored; or a
\* document of another writer dated in the year 10000.
Stored(createdAt) == BSONMarshal(Decode(Answer(createdAt)).stats)

Foreign ==
  [BSONMarshal(ZeroStats) EXCEPT
     !.created_at = [day |-> DaysFromCivil(10000, 1, 1), msec |-> 0]]

InitialCollections ==
  { <<>>,
    << Stored("2024-01-05T10:00:00Z"), Stored("2024-01-05T10:00:00Z"),
       Stored("2024-01-05T10:00:00Z"), Stored("2024-01-06T08:00:00Z") >>,
    << Foreign >> }

\* The server's local date when it starts: 2024-01-06.
StartDays == { DaysFromCivil(2024, 1, 6) }

(***************************************************************************)
(* State.                                                                  *)
(***************************************************************************)
VARIABLES
  authToken,    \* var authToken string
  mongoClient,  \* var mongoClient *mongo.Client
  statistics,   \* the documents of collection "statistics", in insertion order
  today,        \* day number of the server's local date (time.Now())
  midnights,    \* midnights passed since the start
  served,       \* requests accepted since the start
  acked,        \* history: the StatsRaw of every POST answered 200, in order
  req,          \* per connection: the request it serves (pc, the request, the
                \* handler's locals, the response; before and sawDocs are
                \* history: acked when its Find ran, the collection its
                \* aggregation ran on)
  last          \* history: the request answered last, as it ended

vars ==
  << authToken, mongoClient, statistics, today, midnights, served, acked, req, last >>

Idle ==
  [pc |-> "idle", route |-> "ping", header |-> <<>>, body |-> NoBody,
   before |-> <<>>, ctxErr |-> FALSE, status |-> 0, wrote |-> FALSE, resp |-> <<>>,
   err |-> "nil", stats |-> ZeroStats, cursor |-> <<>>, counts |-> {},
   sawDocs |-> <<>>]

Init ==
  /\ authToken \in Secrets
  /\ mongoClient = "connected"
  /\ statistics \in InitialCollections
  /\ today \in StartDays
  /\ midnights = 0
  /\ served = 0
  /\ acked = <<>>
  /\ req = [c \in Connections |-> Idle]
  /\ last = Idle

(***************************************************************************)
(* http.ResponseWriter.                                                    *)
(***************************************************************************)
\* w.WriteHeader(code): only the first call sets the status.
WriteHeader(q, code) == IF q.status = 0 THEN [q EXCEPT !.status = code] ELSE q

\* w.Write(jsonBytes)
Write(q, json) == [q EXCEPT !.wrote = TRUE, !.resp = json]

\* The deferred function of middleware.Timeout, run when the chain below it
\* returns; the request is then over.
TimeoutDeferred(q) ==
  [(IF q.ctxErr THEN WriteHeader(q, StatusGatewayTimeout) ELSE q) EXCEPT !.pc = "done"]

\* A handler returns after writing the status (and the body, if any).
Respond(q, code) == TimeoutDeferred(WriteHeader(q, code))
RespondJSON(q, code, json) == TimeoutDeferred(Write(WriteHeader(q, code), json))

\* The request of connection c becomes q.  When q is over, the response goes
\* to the client and the connection is free for the next request.
Serve(c, q) ==
  IF q.pc = "done"
  THEN /\ req' = [req EXCEPT ![c] = Idle]
       /\ last' = q
  ELSE /\ req' = [req EXCEPT ![c] = q]
       /\ last' = last

(***************************************************************************)
(* The store operations the handlers call.                                 *)
(***************************************************************************)
\* Faulty variant of InsertOne: an upsert keyed by the document, which stores
\* nothing when an equal document is there already.
InsertOneUpsert(coll, stats) ==
  IF \E k \in 1..Len(coll) : coll[k] = BSONMarshal(stats)
  THEN coll
  ELSE Append(coll, BSONMarshal(stats))

\* Collection.InsertOne(ctx, stats) when it succeeds.
InsertOne(coll, stats) == Append(coll, BSONMarshal(stats))

\* Collection.Find(ctx, bson.M{}): every document.
Find(coll) == coll

\* cursor.All(ctx, &stats)
CursorAll(docs) == [k \in 1..Len(docs) |-> BSONUnmarshal(docs[k])]

\* The $group stage: one {_id: day, count: n} per distinct day.
Aggregate(coll) ==
  { [Day |-> day,
     Count |-> Cardinality({k \in 1..Len(coll) : DateToString(coll[k].created_at) = day})]
    : day \in {DateToString(coll[k].created_at) : k \in 1..Len(coll)} }

\* $dateToString rejects a date whose year is outside [0,9999]: the
\* aggregation then fails.
AggregateFails(coll) ==
  \E k \in 1..Len(coll) : CivilFromDays(coll[k].created_at.day)[1] \notin 0..9999

(***************************************************************************)
(* The environment: timers fire.                                           *)
(***************************************************************************)
\* The calls that block on the store: the pcs a request waits at.
StoreCalls ==
  {"addStatsHandler", "getStatsRawHandler", "getStatsRawAll",
   "getCountByDayHandler", "getCountByDayAll"}

\* The timer of context.WithTimeout(r.Context(), 60*time.Second) fires while
\* the request waits for the store.
TimeoutFires(c) ==
  /\ req[c].pc \in StoreCalls
  /\ ~req[c].ctxErr
  /\ Serve(c, [req[c] EXCEPT !.ctxErr = TRUE])
  /\ UNCHANGED << authToken, mongoClient, statistics, today, midnights, served, acked >>

(***************************************************************************)
(* Authorize and the routes.                                               *)
(***************************************************************************)
\* Faulty variant of Handler: GET /stats/raw routed to addStatsHandler, the way
\* the earlier main.go routes GET /stats.
HandlerGetInserts(route) ==
  CASE route = "ping" -> "pingHandler"
    [] route \in {"stats", "raw"} -> "addStatsHandler"
    [] OTHER -> "getCountByDayHandler"

\* The handler chi routes to.
Handler(route) ==
  CASE route = "ping" -> "pingHandler"
    [] route = "stats" -> "addStatsHandler"
    [] route = "raw" -> "getStatsRawHandler"
    [] OTHER -> "getCountByDayHandler"

\* token as Authorize reads it from the header.
Token(header) == IF Len(header) > 0 THEN header[1] ELSE ""

\* What Authorize does with the request q.
Authorized(q) ==
  IF Token(q.header) # authToken
  THEN Respond(q, StatusUnauthorized)
  ELSE [q EXCEPT !.pc = Handler(q.route)]

\* A request arrives on the first connection that serves none;
\* middleware.Timeout derives its context, and the chain reaches Authorize.
Authorize(c) ==
  /\ req[c].pc = "idle"
  /\ \A b \in Connections : b < c => req[b].pc # "idle"
  /\ served < MaxReq
  /\ served' = served + 1
  /\ \E route \in Routes, header \in Headers :
       Serve(c, Authorized([Idle EXCEPT !.route = route, !.header = header]))
  /\ UNCHANGED << authToken, mongoClient, statistics, today, midnights, acked >>

pingHandler(c) ==
  /\ req[c].pc = "pingHandler"
  /\ Serve(c, Respond(req[c], StatusOK))
  /\ UNCHANGED << authToken, mongoClient, statistics, today, midnights, served, acked >>

(***************************************************************************)
(* POST /stats                                                             *)
(***************************************************************************)
\* The handler reads body from r.Body, decodes it, and InsertOne returns ok or
\* an error.
addStatsHandler(c) ==
  /\ req[c].pc = "addStatsHandler"
  /\ \E body \in Bodies, ok \in BOOLEAN :
       LET stats == Decode(body).stats
           q == [req[c] EXCEPT !.body = body, !.stats = stats]
       IN  IF ok
           THEN /\ statistics' = InsertOne(statistics, stats)
                /\ Serve(c, Respond(q, StatusOK))
                /\ acked' = Append(acked, stats)
           ELSE /\ statistics' = statistics
                /\ Serve(c, Respond([q EXCEPT !.err = "InsertOne"],
                                     StatusInternalServerError))
                /\ acked' = acked
  /\ UNCHANGED << authToken, mongoClient, today, midnights, served >>

(***************************************************************************)
(* GET /stats/raw                                                          *)
(***************************************************************************)
\* Find returns: a cursor over the collection, or an error.
getStatsRawHandler(c) ==
  /\ req[c].pc = "getStatsRawHandler"
  /\ \E ok \in BOOLEAN :
       Serve(c, IF ok
                 THEN [req[c] EXCEPT !.cursor = Find(statistics), !.before = acked,
                                     !.pc = "getStatsRawAll"]
                 ELSE Respond([req[c] EXCEPT !.err = "Find"],
                              StatusInternalServerError))
  /\ UNCHANGED << authToken, mongoClient, statistics, today, midnights, served, acked >>

\* Faulty variant of getStatsRawAll: the return after the error of cursor.All
\* is missing, so the handler goes on to marshal and write what was decoded.
getStatsRawAllNoReturn(c) ==
  /\ req[c].pc = "getStatsRawAll"
  /\ \E ok \in BOOLEAN, n \in 0..Len(req[c].cursor) :
       LET stats == CursorAll(SubSeq(req[c].cursor, 1, IF ok THEN Len(req[c].cursor) ELSE n))
           q == IF ok THEN req[c]
                ELSE WriteHeader([req[c] EXCEPT !.err = "All"], StatusInternalServerError)
       IN  Serve(c, IF MarshalFails(stats)
                    THEN Respond([q EXCEPT !.err = "Marshal"], StatusInternalServerError)
                    ELSE RespondJSON(q, StatusOK, stats))
  /\ UNCHANGED << authToken, mongoClient, statistics, today, midnights, served, acked >>

\* cursor.All returns; then json.Marshal and the response.
getStatsRawAll(c) ==
  /\ req[c].pc = "getStatsRawAll"
  /\ \E ok \in BOOLEAN :
       Serve(c, IF ~ok
                 THEN Respond([req[c] EXCEPT !.err = "All"], StatusInternalServerError)
                 ELSE LET stats == CursorAll(req[c].cursor)
                      IN  IF MarshalFails(stats)
                          THEN Respond([req[c] EXCEPT !.err = "Marshal"],
                                       StatusInternalServerError)
                          ELSE RespondJSON(req[c], StatusOK, stats))
  /\ UNCHANGED << authToken, mongoClient, statistics, today, midnights, served, acked >>

(***************************************************************************)
(* GET /stats/count_by_day                                                 *)
(***************************************************************************)
\* Aggregate returns: a cursor over the groups, or an error.
getCountByDayHandler(c) ==
  /\ req[c].pc = "getCountByDayHandler"
  /\ \E ok \in BOOLEAN :
       /\ ok => ~AggregateFails(statistics)
       /\ Serve(c, IF ok
                    THEN [req[c] EXCEPT !.counts = Aggregate(statistics),
                                        !.sawDocs = statistics,
                                        !.pc = "getCountByDayAll"]
                    ELSE Respond([req[c] EXCEPT !.err = "Aggregate"],
                                 StatusInternalServerError))
  /\ UNCHANGED << authToken, mongoClient, statistics, today, midnights, served, acked >>

\* The entry the loop appends for targetDayStr: the store's group when
\* countsMap holds one under that key, a zero count otherwise.
Entry(counts, targetDayStr) ==
  IF \E n \in counts : n.Day = targetDayStr
  THEN CHOOSE n \in counts : n.Day = targetDayStr
  ELSE [Day |-> targetDayStr, Count |-> 0]

\* time.Now() in the j-th iteration of the loop (j = 1 is i = startTimeDaysAgo)
\* when the server's date changes once p iterations have run: today is the
\* date the clock showed when it was read last.
Now(p, j) == IF j > p THEN today + 1 ELSE today

\* targetDayStr for the date the clock shows and i, tabulated over the dates
\* the clock can show.
TargetDayStr ==
  [t \in {d + k : d \in StartDays, k \in 0..MaxMidnights} |->
     [i \in 0..startTimeDaysAgo |-> Format(AddDate(CivilFromDays(t), i))]]

\* responseCountByDays: iteration j has i = startTimeDaysAgo + 1 - j.
Window(counts, p) ==
  [j \in 1..(startTimeDaysAgo + 1) |->
     Entry(counts, TargetDayStr[Now(p, j)][startTimeDaysAgo + 1 - j])]

\* cursor.All returns countByDaysFromMongo or an error; then the loop over the
\* trailing window, each iteration reading the clock, json.Marshal (which
\* cannot fail on strings and ints) and the response.  The loop is the only
\* reader of the clock: midnight passes before it starts (p = 0), between two
\* of its iterations, or not at all (p = startTimeDaysAgo + 1).
getCountByDayAll(c) ==
  /\ req[c].pc = "getCountByDayAll"
  /\ \E ok \in BOOLEAN :
       IF ~ok
       THEN /\ Serve(c, Respond([req[c] EXCEPT !.err = "All"],
                                StatusInternalServerError))
            /\ UNCHANGED << today, midnights >>
       ELSE \E p \in 0..(startTimeDaysAgo + 1) :
              /\ p <= startTimeDaysAgo => midnights < MaxMidnights
              /\ Serve(c, RespondJSON(req[c], StatusOK, Window(req[c].counts, p)))
              /\ today' = Now(p, startTimeDaysAgo + 1)
              /\ midnights' = midnights + (today' - today)
  /\ UNCHANGED << authToken, mongoClient, statistics, served, acked >>

(***************************************************************************)
(* The service.                                                            *)
(***************************************************************************)
Next ==
  \/ \E c \in Connections :
       \/ TimeoutFires(c)
       \/ Authorize(c)
       \/ pingHandler(c)
       \/ addStatsHandler(c)
       \/ getStatsRawHandler(c)
       \/ getStatsRawAll(c)
       \/ getCountByDayHandler(c)
       \/ getCountByDayAll(c)

Spec == Init /\ [][Next]_vars

(***************************************************************************)
(* The claims.  last is the request answered last; a step answers a        *)
(* request when it changes last.                                           *)
(***************************************************************************)
StatsRoutes == {"stats", "raw", "count_by_day"}

Answered == last.pc = "done"

\* The step answers a request.
Answers == last' # last

\* The request carries the configured secret as its X-Auth-Token.
CarriesSecret(header) == header # <<>> /\ header[1] = authToken

\* The handler of the request q has not run.
HandlerNotRun(q) ==
  /\ q.err = "nil" /\ ~q.wrote /\ q.resp = <<>>
  /\ q.body = NoBody /\ q.stats = ZeroStats
  /\ q.cursor = <<>> /\ q.counts = {} /\ q.sawDocs = <<>>

\* C1: a request to POST /stats, GET /stats/raw or GET /stats/count_by_day
\* whose X-Auth-Token (absent, wrong, or several values) is not the configured
\* secret is answered 401, its handler never runs, and nothing of the store
\* is written to its response.
C1_UnauthorizedIsRejected ==
  /\ \A c \in Connections :
       req[c].pc # "idle" /\ req[c].route \in StatsRoutes
         => CarriesSecret(req[c].header)
  /\ Answered /\ last.route \in StatsRoutes /\ ~CarriesSecret(last.header)
       => last.status = StatusUnauthorized /\ HandlerNotRun(last)

\* C2: GET /ping is answered 200 whatever the X-Auth-Token header is.
C2_PingAlwaysOK ==
  Answered /\ last.route = "ping" => last.status = StatusOK

\* The day number of a "YYYY-MM-DD" string.
DayNumber(dayStr) == DaysFromCivil(dayStr[1], dayStr[2], dayStr[3])

CountByDayOK == Answered /\ last.route = "count_by_day" /\ last.status = StatusOK

\* C3: a 200 response of GET /stats/count_by_day holds exactly 32 entries whose
\* days are consecutive calendar dates in increasing order, the last one being
\* the current date, however the server clock behaves during the request.
C3_WindowIsContiguous ==
  CountByDayOK =>
    /\ Len(last.resp) = startTimeDaysAgo + 1
    /\ \A j \in 1..startTimeDaysAgo :
         DayNumber(last.resp[j + 1].Day) = DayNumber(last.resp[j].Day) + 1
    /\ last.resp[startTimeDaysAgo + 1].Day = CivilFromDays(today)

\* The number of documents of docs the store formats as dayStr.
StoredOn(docs, dayStr) ==
  Cardinality({k \in 1..Len(docs) : CivilFromDays(docs[k].created_at.day) = dayStr})

\* C4: in a 200 response of GET /stats/count_by_day every day d of the 32-day
\* window has an entry, whose count is the number of stored records the store
\* formats as d (an explicit 0 when there is none), and every entry counts the
\* records of its own day only.
C4_CountsPerDay ==
  CountByDayOK =>
    /\ \A d \in (today - startTimeDaysAgo)..today :
         \E j \in 1..Len(last.resp) :
            /\ last.resp[j].Day = CivilFromDays(d)
            /\ last.resp[j].Count = StoredOn(last.sawDocs, CivilFromDays(d))
    /\ \A j \in 1..Len(last.resp) :
         last.resp[j].Count = StoredOn(last.sawDocs, last.resp[j].Day)

RawOK == Answered /\ last.route = "raw" /\ last.status = StatusOK

Holds(resp, stats) == \E k \in 1..Len(resp) : resp[k] = stats

\* C5 as stated: once a POST /stats has been answered 200, every later 200
\* response of GET /stats/raw holds that exact record.
C5_RawHoldsExactRecord ==
  RawOK => \A k \in 1..Len(last.before) : Holds(last.resp, last.before[k])

\* The instant of a time.Time in whole milliseconds, in UTC.
MillisUTC(t) == [t EXCEPT !.nsec = 0, !.off = 0]

IsPrefix(s, t) == Len(s) <= Len(t) /\ \A k \in 1..Len(s) : s[k] = t[k]

\* C5 amended: once a POST /stats has been answered 200, every later 200
\* response of GET /stats/raw holds that record with created_at cut to whole
\* milliseconds and expressed in UTC (the exact record when created_at is
\* already so); and no step modifies or removes a stored document.
C5_RawHoldsStoredRecord ==
  /\ [](RawOK => \A k \in 1..Len(last.before) :
                   Holds(last.resp,
                         [last.before[k] EXCEPT !.CreatedAt = MillisUTC(@)]))
  /\ [][IsPrefix(statistics, statistics')]_vars

C5_Witness ==
  /\ RawOK
  /\ \E k \in 1..Len(last.before) : last.before[k].CreatedAt.nsec # 0

\* The member f of a JSON object does not decode into its field of StatsRaw.
Mistyped(f) ==
  \/ f.key \in {"chord_name", "root_note", "chord_extension"} /\ f.kind # "string"
  \/ f.key = "answer_duration_millis" /\ f.kind # "number"
  \/ f.key = "created_at" /\ ~(f.kind = "string" /\ ParseRFC3339(f.str).ok)

FailsToDecode(body) ==
  body.kind # "object" \/ \E k \in 1..Len(body.fields) : Mistyped(body.fields[k])

\* The step answers an authorized POST /stats whose insert succeeded.
Inserted ==
  /\ \E c \in Connections : req[c].pc = "addStatsHandler" /\ req'[c].pc = "idle"
  /\ last'.err = "nil"

Newest(coll) == coll[Len(coll)]

OneRecordAdded ==
  /\ last'.status = StatusOK
  /\ Len(statistics') = Len(statistics) + 1
  /\ IsPrefix(statistics, statistics')

Decodes(fields, k) ==
  /\ fields[k].key \in {"chord_name", "root_note", "chord_extension"}
  /\ fields[k].kind = "string"
  /\ \A h \in 1..(k - 1) : ~(fields[h].key = "created_at" /\ Mistyped(fields[h]))
  /\ \A h \in (k + 1)..Len(fields) : fields[h].key # fields[k].key

C7_FailureIs500 ==
  /\ [](/\ \A c \in Connections : req[c].err = "nil"
        /\ Answered /\ last.err # "nil" =>
             /\ last.status = StatusInternalServerError
             /\ ~last.wrote /\ last.resp = <<>>)
  /\ [][Answers /\ last'.err # "nil" => statistics' = statistics]_vars

C7_Witness ==
  /\ Answered /\ last.route = "raw" /\ last.err = "All"
  /\ last.cursor # <<>> /\ last.status = StatusInternalServerError

\* C8: when a store operation blocks beyond the 60 seconds of the request's
\* context, the request ends with the timeout error, not with the handler's
\* own 200 or 500.
C8_TimeoutBoundsHandler ==
  Answered /\ last.ctxErr => last.status = StatusGatewayTimeout

Documents(allStats) == [k \in 1..Len(allStats) |-> BSONMarshal(allStats[k])]

\* C9: under every interleaving no handler writes authToken or mongoClient,
\* and the collection holds its initial documents followed by exactly one
\* document per POST /stats whose insert succeeded.
C9_NoSharedState ==
  /\ [](\E initial \in InitialCollections :
          statistics = initial \o Documents(acked))
  /\ [][/\ authToken' = authToken /\ mongoClient' = mongoClient
        /\ Len(acked') = Len(acked) + (IF Inserted THEN 1 ELSE 0)]_vars

C9_Witness ==
  /\ Len(acked) = 1
  /\ req[1].pc = "idle" /\ req[2].pc = "addStatsHandler"

\* C10: a step of a GET /ping, GET /stats/raw or GET /stats/count_by_day
\* request, ending it with 200 or 500 or not ending it, leaves the collection
\* as it was.
C10_OnlyPostChangesStore ==
  [][(\E c \in Connections :
        /\ req[c].pc # "idle" /\ req[c].route # "stats"
        /\ req'[c] # req[c])
       => statistics' = statistics]_vars

C10_Witness ==
  /\ Answered /\ last.route = "count_by_day" /\ last.status = StatusOK
  /\ statistics # <<>>

====
